---- MODULE Spec2Model ----
(***************************************************************************)
(* Model of flow.py: parse_lookup_table, parse_flow_logs, write_output and *)
(* main.  The three files the program touches (lookup.csv, flow_logs.txt,  *)
(* output.csv) are state; a Python dict is a sequence of <<key, value>>    *)
(* pairs in insertion order.                                               *)
(***************************************************************************)
EXTENDS Integers, Sequences, FiniteSets, TLC

VARIABLES
    lookup_csv,            \* lookup.csv: [header |-> field names, rows |-> the data rows]
    flow_log,              \* flow_logs.txt: sequence of lines, each a sequence of tokens
    output_csv,            \* output.csv: sequence of rows written (<<>> = absent or empty)
    pc,                    \* position of main()
    row_idx,               \* data rows of lookup.csv consumed by the DictReader
    lookup,                \* parse_lookup_table's dict
    line_idx,              \* lines of flow_logs.txt consumed
    tag_counts,            \* parse_flow_logs' defaultdict(int)
    port_protocol_counts,  \* parse_flow_logs' defaultdict(int)
    untagged_count,        \* parse_flow_logs' int
    run,                   \* which invocation of main() this is
    prev_output            \* output.csv as the previous invocation left it on success

vars == <<lookup_csv, flow_log, output_csv, pc, row_idx, lookup, line_idx,
          tag_counts, port_protocol_counts, untagged_count, run, prev_output>>

----------------------------------------------------------------------------
(* Bounds of the model *)

MaxRows == 3        \* data rows of lookup.csv under SpecLookup
MaxLines == 3       \* lines of flow_logs.txt under SpecFlow
MaxRunRows == 1     \* data rows of lookup.csv under Spec
MaxRunLines == 2    \* lines of flow_logs.txt under Spec
MaxRuns == 2        \* invocations of main() under Spec

----------------------------------------------------------------------------
(* Python values *)

\* Python's None; no CSV field or token of the model is this string.
None == "<None>"

\* The report does not exist (no successful previous invocation).
NoReport == <<<<"<no report>">>>>

\* str.lower() on the protocol strings of the model.
Lower(s) ==
    CASE s = "TCP" -> "tcp"
      [] s = "Tcp" -> "tcp"
      [] s = "UDP" -> "udp"
      [] OTHER -> s

\* k in d
DictHas(d, k) == \E i \in 1..Len(d) : d[i][1] = k

\* d.get(k, default)
DictGet(d, k, default) ==
    IF DictHas(d, k)
    THEN d[CHOOSE i \in 1..Len(d) : d[i][1] = k][2]
    ELSE default

\* A mutated d[k] = v: an existing key is re-inserted at the end.
DictSetMoveToEnd(d, k, v) ==
    SelectSeq(d, LAMBDA e : e[1] # k) \o << <<k, v>> >>

\* d[k] = v: an existing key keeps its position, a new key goes last.
DictSet(d, k, v) ==
    IF DictHas(d, k)
    THEN LET i == CHOOSE j \in 1..Len(d) : d[j][1] = k
         IN SubSeq(d, 1, i - 1) \o << <<k, v>> >> \o SubSeq(d, i + 1, Len(d))
    ELSE Append(d, <<k, v>>)

\* A mutated d[k] += 1 that forgets the previous count.
DictIncrReset(d, k) == DictSet(d, k, 1)

\* d[k] += 1 on a defaultdict(int)
DictIncr(d, k) == DictSet(d, k, DictGet(d, k, 0) + 1)

\* list(d.keys())
RECURSIVE DictKeys(_)
DictKeys(d) == IF d = <<>> THEN <<>> ELSE <<d[1][1]>> \o DictKeys(Tail(d))

\* sum(d.values())
RECURSIVE DictSum(_)
DictSum(d) == IF d = <<>> THEN 0 ELSE d[1][2] + DictSum(Tail(d))

----------------------------------------------------------------------------
(* Program constants *)

\* A mutated protocol_map that also knows UDP.
ProtocolMapWithUdp == << <<"6", "tcp">>, <<"17", "udp">> >>

protocol_map == << <<"6", "tcp">> >>

\* A mutated valid_ports that lets port 9999 through.
ValidPortsWith9999 ==
    {"22", "23", "25", "80", "110", "143", "443", "993", "1024", "49158", "9999"}

valid_ports == {"22", "23", "25", "80", "110", "143", "443", "993", "1024", "49158"}

\* A mutated minimum token count (len(parts) < 12).
MinPartsOffByOne == 13 - 1

MinParts == 13

\* The sentinel lookup.get falls back to.
UntaggedSentinel == "Untagged"

----------------------------------------------------------------------------
(* Inputs *)

Headers == { <<"dstport", "protocol", "tag">>, <<"dstport", "protocol">> }

\* Data rows as the csv reader yields them: a blank line, rows cut short, full rows.
RowAlphabet ==
    { <<>>,
      <<"80">>,
      <<"80", "tcp">>,
      <<"80", "tcp", "web">>,
      <<"80", "TCP", "ssh">>,
      <<"22", "tcp", "ssh">>,
      <<"22", "Tcp", "Untagged">> }

Line(port, proto) ==
    <<"2", "acct", "eni", "10.0.0.1", "10.0.0.2", port, "49153", proto,
      "25", "20000", "1620140761", "1620140821", "ACCEPT">>

\* Flow-log lines after strip().split(): an empty line, a 12-token line, 13- and
\* 14-token lines.
LineAlphabet ==
    { <<>>,
      SubSeq(Line("80", "6"), 1, 12),
      Line("80", "6"),
      Line("22", "6") \o <<"OK">>,
      Line("9999", "6"),
      Line("80", "17") }

RECURSIVE SeqsUpTo(_, _)
SeqsUpTo(S, n) ==
    IF n = 0 THEN { <<>> }
    ELSE LET shorter == SeqsUpTo(S, n - 1)
         IN shorter \cup { Append(s, x) : s \in { t \in shorter : Len(t) = n - 1 }, x \in S }

\* Lookup files whose rows are all well formed with pairwise distinct keys, and the
\* dict parse_lookup_table returns for them.
TableRows == {"80", "22"} \X {"tcp"} \X {"web", "ssh", "Untagged"}

TableFiles ==
    { <<>> } \cup { <<r>> : r \in TableRows }
    \cup { f \in TableRows \X TableRows : f[1][1] # f[2][1] }

Entry(r) == << <<r[1], r[2]>>, r[3] >>

TableOf(rows) ==
    IF Len(rows) = 0 THEN <<>>
    ELSE IF Len(rows) = 1 THEN << Entry(rows[1]) >>
    ELSE << Entry(rows[1]), Entry(rows[2]) >>

----------------------------------------------------------------------------
(* csv.DictReader *)

FieldIndex(header, f) == CHOOSE i \in 1..Len(header) : header[i] = f

HasField(header, f) == \E i \in 1..Len(header) : header[i] = f

\* row[f] of the dict the DictReader builds: a short row is filled with None.
RowGet(header, row, f) ==
    IF FieldIndex(header, f) <= Len(row) THEN row[FieldIndex(header, f)] ELSE None

----------------------------------------------------------------------------
(* parse_lookup_table *)

\* open(lookup_file) and lookup = {}
ParseLookupOpen ==
    /\ pc = "start"
    /\ pc' = "lookup"
    /\ row_idx' = 0
    /\ lookup' = <<>>
    /\ UNCHANGED <<lookup_csv, flow_log, output_csv, line_idx, tag_counts,
                   port_protocol_counts, untagged_count, run, prev_output>>

\* The lookup file cannot be opened or read: the exception ends main().
LookupReadError ==
    /\ pc \in {"start", "lookup"}
    /\ pc' = "error"
    /\ UNCHANGED <<lookup_csv, flow_log, output_csv, row_idx, lookup, line_idx,
                   tag_counts, port_protocol_counts, untagged_count, run, prev_output>>

\* Whether the loop body raises on this row: KeyError for a column the header
\* lacks, AttributeError for None.lower().
RowRaises(header, row) ==
    \/ ~HasField(header, "dstport")
    \/ ~HasField(header, "protocol")
    \/ RowGet(header, row, "protocol") = None
    \/ ~HasField(header, "tag")

\* A mutated key that keeps the protocol's case.
RowKeyNoLower(header, row) ==
    <<RowGet(header, row, "dstport"), RowGet(header, row, "protocol")>>

RowKey(header, row) ==
    <<RowGet(header, row, "dstport"), Lower(RowGet(header, row, "protocol"))>>

\* One iteration of `for row in reader` (the DictReader skips blank rows).
ParseLookupRow ==
    /\ pc = "lookup"
    /\ row_idx < Len(lookup_csv.rows)
    /\ LET header == lookup_csv.header
           row == lookup_csv.rows[row_idx + 1]
       IN IF row = <<>>
          THEN /\ row_idx' = row_idx + 1
               /\ UNCHANGED <<pc, lookup>>
          ELSE IF RowRaises(header, row)
          THEN /\ pc' = "error"
               /\ UNCHANGED <<row_idx, lookup>>
          ELSE /\ lookup' = DictSet(lookup, RowKey(header, row), RowGet(header, row, "tag"))
               /\ row_idx' = row_idx + 1
               /\ UNCHANGED pc
    /\ UNCHANGED <<lookup_csv, flow_log, output_csv, line_idx, tag_counts,
                   port_protocol_counts, untagged_count, run, prev_output>>

\* return lookup
ParseLookupReturn ==
    /\ pc = "lookup"
    /\ row_idx = Len(lookup_csv.rows)
    /\ pc' = "lookup_done"
    /\ UNCHANGED <<lookup_csv, flow_log, output_csv, row_idx, lookup, line_idx,
                   tag_counts, port_protocol_counts, untagged_count, run, prev_output>>

----------------------------------------------------------------------------
(* parse_flow_logs *)

\* The three counters are created empty and the flow file is opened.
ParseFlowOpen ==
    /\ pc = "lookup_done"
    /\ pc' = "flow"
    /\ line_idx' = 0
    /\ tag_counts' = <<>>
    /\ port_protocol_counts' = <<>>
    /\ untagged_count' = 0
    /\ UNCHANGED <<lookup_csv, flow_log, output_csv, row_idx, lookup, run, prev_output>>

\* A mutated failure path that goes on to write the report.
FlowReadErrorThenWrite ==
    /\ pc = "flow"
    /\ pc' = "write"
    /\ UNCHANGED <<lookup_csv, flow_log, output_csv, row_idx, lookup, line_idx,
                   tag_counts, port_protocol_counts, untagged_count, run, prev_output>>

\* The flow file cannot be opened or read: the exception ends main().
FlowReadError ==
    /\ pc \in {"lookup_done", "flow"}
    /\ pc' = "error"
    /\ UNCHANGED <<lookup_csv, flow_log, output_csv, row_idx, lookup, line_idx,
                   tag_counts, port_protocol_counts, untagged_count, run, prev_output>>

\* One iteration of `for line in f`.
ParseFlowLine ==
    /\ pc = "flow"
    /\ line_idx < Len(flow_log)
    /\ line_idx' = line_idx + 1
    /\ LET parts == flow_log[line_idx + 1]
       IN IF Len(parts) < MinParts
          THEN UNCHANGED <<tag_counts, port_protocol_counts, untagged_count>>
          ELSE LET dstport == parts[6]
                   protocol_num == parts[8]
                   protocol == DictGet(protocol_map, protocol_num, None)
               IN IF protocol = None \/ dstport \notin valid_ports
                  THEN /\ untagged_count' = untagged_count + 1
                       /\ UNCHANGED <<tag_counts, port_protocol_counts>>
                  ELSE LET tag == DictGet(lookup, <<dstport, protocol>>, UntaggedSentinel)
                       IN /\ IF tag # UntaggedSentinel
                             THEN /\ tag_counts' = DictIncr(tag_counts, tag)
                                  /\ UNCHANGED untagged_count
                             ELSE /\ untagged_count' = untagged_count + 1
                                  /\ UNCHANGED tag_counts
                          /\ port_protocol_counts' =
                                 DictIncr(port_protocol_counts, <<dstport, protocol>>)
    /\ UNCHANGED <<lookup_csv, flow_log, output_csv, pc, row_idx, lookup, run, prev_output>>

\* return tag_counts, port_protocol_counts, untagged_count
ParseFlowReturn ==
    /\ pc = "flow"
    /\ line_idx = Len(flow_log)
    /\ pc' = "write"
    /\ UNCHANGED <<lookup_csv, flow_log, output_csv, row_idx, lookup, line_idx,
                   tag_counts, port_protocol_counts, untagged_count, run, prev_output>>

----------------------------------------------------------------------------
(* write_output *)

\* csv.writer renders None as the empty field.
CsvField(v) == IF v = None THEN "" ELSE v

RECURSIVE TagRows(_)
TagRows(d) ==
    IF d = <<>> THEN <<>>
    ELSE << <<CsvField(d[1][1]), d[1][2]>> >> \o TagRows(Tail(d))

RECURSIVE PairRows(_)
PairRows(d) ==
    IF d = <<>> THEN <<>>
    ELSE << <<d[1][1][1], d[1][1][2], d[1][2]>> >> \o PairRows(Tail(d))

\* The rows write_output writes, in order.
Report(tc, ppc, u) ==
    << <<"Tag Counts:">>, <<"Tag", "Count">> >>
    \o TagRows(tc)
    \o << <<"Untagged", u>>, <<>>,
          <<"Port/Protocol Combination Counts:">>, <<"Port", "Protocol", "Count">> >>
    \o PairRows(ppc)

\* A mutated write_output that opens output.csv with mode='a'.
WriteOutputAppend ==
    /\ pc = "write"
    /\ output_csv' = output_csv \o Report(tag_counts, port_protocol_counts, untagged_count)
    /\ pc' = "done"
    /\ UNCHANGED <<lookup_csv, flow_log, row_idx, lookup, line_idx, tag_counts,
                   port_protocol_counts, untagged_count, run, prev_output>>

\* open(output_file, mode='w') truncates output.csv; then the rows are written.
WriteOutput ==
    /\ pc = "write"
    /\ output_csv' = Report(tag_counts, port_protocol_counts, untagged_count)
    /\ pc' = "done"
    /\ UNCHANGED <<lookup_csv, flow_log, row_idx, lookup, line_idx, tag_counts,
                   port_protocol_counts, untagged_count, run, prev_output>>

----------------------------------------------------------------------------
(* main *)

\* main() is invoked again on the same files.
MainAgain ==
    /\ pc \in {"done", "error"}
    /\ run < MaxRuns
    /\ run' = run + 1
    /\ prev_output' = IF pc = "done" THEN output_csv ELSE NoReport
    /\ pc' = "start"
    /\ UNCHANGED <<lookup_csv, flow_log, output_csv, row_idx, lookup, line_idx,
                   tag_counts, port_protocol_counts, untagged_count>>

----------------------------------------------------------------------------
(* Specifications *)

Fresh ==
    /\ output_csv = <<>>
    /\ row_idx = 0
    /\ lookup = <<>>
    /\ line_idx = 0
    /\ tag_counts = <<>>
    /\ port_protocol_counts = <<>>
    /\ untagged_count = 0
    /\ run = 1
    /\ prev_output = NoReport

\* main() on any pair of input files, then once more on the same files.
Init ==
    /\ lookup_csv \in [header : Headers, rows : SeqsUpTo(RowAlphabet, MaxRunRows)]
    /\ flow_log \in SeqsUpTo(LineAlphabet, MaxRunLines)
    /\ pc = "start"
    /\ Fresh

Next ==
    \/ ParseLookupOpen
    \/ LookupReadError
    \/ ParseLookupRow
    \/ ParseLookupReturn
    \/ ParseFlowOpen
    \/ FlowReadError
    \/ ParseFlowLine
    \/ ParseFlowReturn
    \/ WriteOutput
    \/ MainAgain

Spec == Init /\ [][Next]_vars

\* parse_lookup_table on any lookup file.
InitLookup ==
    /\ lookup_csv \in [header : Headers, rows : SeqsUpTo(RowAlphabet, MaxRows)]
    /\ flow_log = <<>>
    /\ pc = "start"
    /\ Fresh

NextLookup ==
    \/ ParseLookupOpen
    \/ ParseLookupRow
    \/ ParseLookupReturn

SpecLookup == InitLookup /\ [][NextLookup]_vars

\* parse_flow_logs and write_output on any flow log, from the state in which
\* parse_lookup_table has returned the table of a well-formed lookup file.
InitFlow ==
    /\ \E rows \in TableFiles :
          /\ lookup_csv = [header |-> <<"dstport", "protocol", "tag">>, rows |-> rows]
          /\ row_idx = Len(rows)
          /\ lookup = TableOf(rows)
    /\ flow_log \in SeqsUpTo(LineAlphabet, MaxLines)
    /\ pc = "lookup_done"
    /\ output_csv = <<>>
    /\ line_idx = 0
    /\ tag_counts = <<>>
    /\ port_protocol_counts = <<>>
    /\ untagged_count = 0
    /\ run = 1
    /\ prev_output = NoReport

NextFlow ==
    \/ ParseFlowOpen
    \/ ParseFlowLine
    \/ ParseFlowReturn
    \/ WriteOutput

SpecFlow == InitFlow /\ [][NextFlow]_vars

----------------------------------------------------------------------------
(* Vocabulary of the properties *)

\* The port allow-list and the TCP protocol code as the specification states them.
SpecPorts == {"22", "23", "25", "80", "110", "143", "443", "993", "1024", "49158"}

SpecTcpCode == "6"

\* This step consumes a flow-log line; Parts is that line's token list.
LineStep == pc = "flow" /\ line_idx' # line_idx

Parts == flow_log[line_idx + 1]

\* The line has at least 13 tokens and passes the protocol and port filter.
Considered(parts) == Len(parts) >= 13

PassesFilter(parts) ==
    Considered(parts) /\ parts[8] = SpecTcpCode /\ parts[6] \in SpecPorts

PairOf(parts) == <<parts[6], "tcp">>

\* The line parse_flow_logs consumed last.
LastParts == flow_log[line_idx]

IsPrefix(s, t) == Len(s) <= Len(t) /\ SubSeq(t, 1, Len(s)) = s

----------------------------------------------------------------------------
(* parse_flow_logs, line by line (SpecFlow) *)

\* C1: a line with at least 13 tokens, protocol code "6", a port of the allow-list
\* and a lookup entry for (port, "tcp") with any tag adds exactly 1 to that tag's
\* count and to the (port, "tcp") pair count and leaves the untagged count alone.
C1_TaggedLineCounted ==
    [][ (LineStep /\ PassesFilter(Parts) /\ DictHas(lookup, PairOf(Parts)))
        => LET tag == DictGet(lookup, PairOf(Parts), None)
           IN /\ DictGet(tag_counts', tag, 0) = DictGet(tag_counts, tag, 0) + 1
              /\ DictGet(port_protocol_counts', PairOf(Parts), 0)
                     = DictGet(port_protocol_counts, PairOf(Parts), 0) + 1
              /\ untagged_count' = untagged_count ]_vars

\* C2: a line with at least 13 tokens, protocol code "6" and a port of the
\* allow-list whose (port, "tcp") has no lookup entry adds exactly 1 to the
\* untagged count and to the (port, "tcp") pair count and changes no tag count.
C2_LookupMissCounted ==
    [][ (LineStep /\ PassesFilter(Parts) /\ ~DictHas(lookup, PairOf(Parts)))
        => /\ untagged_count' = untagged_count + 1
           /\ DictGet(port_protocol_counts', PairOf(Parts), 0)
                  = DictGet(port_protocol_counts, PairOf(Parts), 0) + 1
           /\ \A i \in 1..Len(port_protocol_counts) :
                  port_protocol_counts[i][1] # PairOf(Parts)
                  => port_protocol_counts'[i] = port_protocol_counts[i]
           /\ tag_counts' = tag_counts ]_vars

\* C2 witness: the same missed pair has just been counted a second time.
C2_Witness ==
    /\ pc = "flow"
    /\ line_idx >= 2
    /\ PassesFilter(LastParts)
    /\ ~DictHas(lookup, PairOf(LastParts))
    /\ DictGet(port_protocol_counts, PairOf(LastParts), 0) = 2
    /\ untagged_count >= 2

\* C3: a line with at least 13 tokens whose protocol code is not "6" or whose
\* port is outside the allow-list adds exactly 1 to the untagged count and leaves
\* every pair count and tag count, and the sets of their keys, unchanged.
C3_FilteredLineUntagged ==
    [][ (LineStep /\ Considered(Parts) /\ ~PassesFilter(Parts))
        => /\ untagged_count' = untagged_count + 1
           /\ port_protocol_counts' = port_protocol_counts
           /\ tag_counts' = tag_counts ]_vars

\* C3 witness: a line with a port outside the allow-list has just been counted
\* while all three counters were already in use.
C3_Witness ==
    /\ pc = "flow"
    /\ line_idx >= 1
    /\ Considered(LastParts)
    /\ ~PassesFilter(LastParts)
    /\ LastParts[6] \notin SpecPorts
    /\ tag_counts # <<>>
    /\ port_protocol_counts # <<>>
    /\ untagged_count >= 2

\* C4: a line with fewer than 13 tokens (an empty line included) changes no
\* counter, and the loop goes on to the next line.
C4_ShortLineDropped ==
    [][ (LineStep /\ ~Considered(Parts))
        => /\ tag_counts' = tag_counts
           /\ port_protocol_counts' = port_protocol_counts
           /\ untagged_count' = untagged_count
           /\ line_idx' = line_idx + 1
           /\ pc' = "flow" ]_vars

\* C4 witness: a 12-token line has just been dropped with all three counters in
\* use, and another line is still to come.
C4_Witness ==
    /\ pc = "flow"
    /\ line_idx >= 1
    /\ line_idx < Len(flow_log)
    /\ Len(LastParts) = 12
    /\ (tag_counts # <<>> \/ untagged_count > 0)
    /\ port_protocol_counts # <<>>

\* C10: after any prefix of the flow log, the tag counts and the untagged count
\* add up to the number of consumed lines with at least 13 tokens, and the pair
\* counts add up to the number of those that passed the protocol and port filter.
C10_Conservation ==
    /\ DictSum(tag_counts) + untagged_count
           = Cardinality({ i \in 1..line_idx : Considered(flow_log[i]) })
    /\ DictSum(port_protocol_counts)
           = Cardinality({ i \in 1..line_idx : PassesFilter(flow_log[i]) })

\* C10 witness: three lines consumed, one tagged, one filtered, one dropped.
C10_Witness ==
    /\ pc = "flow"
    /\ line_idx = 3
    /\ DictSum(tag_counts) = 1
    /\ untagged_count = 1
    /\ DictSum(port_protocol_counts) = 1
    /\ \E i \in 1..3 : ~Considered(flow_log[i])

----------------------------------------------------------------------------
(* write_output (SpecFlow) *)

\* C7: while the flow log is read, a counted key never moves and a new key goes
\* last, in the tag counts and in the pair counts; the report lists the tag rows
\* and the pair rows in exactly that order.
C7_ReportInFirstCountedOrder ==
    [][ /\ pc = "flow"
           => /\ IsPrefix(DictKeys(tag_counts), DictKeys(tag_counts'))
              /\ IsPrefix(DictKeys(port_protocol_counts), DictKeys(port_protocol_counts'))
        /\ (pc = "write" /\ pc' = "done")
           => LET nt == Len(tag_counts)
                  np == Len(port_protocol_counts)
              IN /\ Len(output_csv') = nt + np + 6
                 /\ \A i \in 1..nt :
                        output_csv'[2 + i][1] = CsvField(tag_counts[i][1])
                 /\ \A i \in 1..np :
                        <<output_csv'[nt + 6 + i][1], output_csv'[nt + 6 + i][2]>>
                            = port_protocol_counts[i][1] ]_vars

\* C7 witness: the report of a log whose first and third lines count the same tag
\* and pair and whose second line counts another tag and pair.
C7_Witness ==
    /\ pc = "done"
    /\ Len(flow_log) = 3
    /\ flow_log[1] = flow_log[3]
    /\ Len(tag_counts) = 2
    /\ Len(port_protocol_counts) = 2
    /\ tag_counts[1][2] = 2
    /\ output_csv[3][1] = tag_counts[1][1]
    /\ output_csv[4][1] = tag_counts[2][1]

----------------------------------------------------------------------------
(* parse_lookup_table (SpecLookup) *)

\* The row is a data row (not a blank line) that has no value for column f.
RowLacks(header, row, f) ==
    row # <<>> /\ (~HasField(header, f) \/ FieldIndex(header, f) > Len(row))

RowWellFormed(header, row) ==
    /\ row # <<>>
    /\ \A f \in {"dstport", "protocol", "tag"} : ~RowLacks(header, row, f)

FileWellFormed ==
    \A i \in 1..Len(lookup_csv.rows) : RowWellFormed(lookup_csv.header, lookup_csv.rows[i])

\* C5: when some row of the lookup input lacks its dstport, protocol or tag,
\* parse_lookup_table returns no table.
C5_MalformedRowIsFatal ==
    (\E i \in 1..Len(lookup_csv.rows) :
        \E f \in {"dstport", "protocol", "tag"} :
            RowLacks(lookup_csv.header, lookup_csv.rows[i], f))
    => pc # "lookup_done"

\* The key the specification gives a well-formed row, and the last row with key k.
SpecKey(row) == <<row[1], Lower(row[2])>>

LastRowWithKey(k) ==
    CHOOSE i \in 1..Len(lookup_csv.rows) :
        /\ SpecKey(lookup_csv.rows[i]) = k
        /\ \A j \in (i + 1)..Len(lookup_csv.rows) : SpecKey(lookup_csv.rows[j]) # k

\* C6: for a lookup input of well-formed rows parse_lookup_table raises no error,
\* and the table it returns maps (port, lowercase(protocol)) of every row to the
\* tag of the last row with that port and lowercased protocol, and holds no other
\* key.
C6_LastRowWins ==
    FileWellFormed
    => /\ pc # "error"
       /\ pc = "lookup_done"
          => /\ \A i \in 1..Len(lookup_csv.rows) :
                    LET k == SpecKey(lookup_csv.rows[i])
                    IN /\ DictHas(lookup, k)
                       /\ DictGet(lookup, k, None) = lookup_csv.rows[LastRowWithKey(k)][3]
             /\ Len(lookup) = Cardinality({ SpecKey(lookup_csv.rows[i]) :
                                              i \in 1..Len(lookup_csv.rows) })

\* C6 witness: a table returned for three rows, the first and third with the same
\* port, protocols that differ in case only, and different tags.
C6_Witness ==
    /\ pc = "lookup_done"
    /\ FileWellFormed
    /\ Len(lookup_csv.rows) = 3
    /\ Len(lookup) = 2
    /\ SpecKey(lookup_csv.rows[1]) = SpecKey(lookup_csv.rows[3])
    /\ lookup_csv.rows[1][2] # lookup_csv.rows[3][2]
    /\ lookup_csv.rows[1][3] # lookup_csv.rows[3][3]
    /\ DictGet(lookup, SpecKey(lookup_csv.rows[1]), None) = lookup_csv.rows[3][3]

----------------------------------------------------------------------------
(* main (Spec) *)

\* C8: an invocation of main() that follows a successful one on the same two
\* input files leaves exactly the report the previous one left.
C8_SameInputsSameReport ==
    (run >= 2 /\ pc = "done" /\ prev_output # NoReport) => output_csv = prev_output

\* C8 witness: the second invocation has written a report with a tag row, a pair
\* row and a non-zero untagged count.
C8_Witness ==
    /\ run = 2
    /\ pc = "done"
    /\ prev_output # NoReport
    /\ Len(lookup_csv.rows) >= 1
    /\ Len(flow_log) >= 1
    /\ (tag_counts # <<>> \/ untagged_count > 0)

\* C9: output.csv changes only once every lookup row and every flow-log line has
\* been consumed; a flow-log line is consumed only once every lookup row has
\* been; and from a failed invocation nothing follows but a new invocation.
C9_ReportOnlyAfterFullPass ==
    [][ /\ output_csv' # output_csv
           => /\ row_idx = Len(lookup_csv.rows)
              /\ line_idx = Len(flow_log)
              /\ pc # "error"
        /\ line_idx' > line_idx
           => row_idx = Len(lookup_csv.rows)
        /\ pc = "error"
           => /\ output_csv' = output_csv
              /\ pc' \in {"error", "start"} ]_vars

\* C9 witness: the first invocation failed on the flow log after the whole lookup
\* table was built and a line was classified, and no report exists.
C9_Witness ==
    /\ run = 1
    /\ pc = "error"
    /\ Len(lookup_csv.rows) >= 1
    /\ row_idx = Len(lookup_csv.rows)
    /\ line_idx >= 1
    /\ output_csv = <<>>

====
